---- MODULE Spec2Model ----
(***************************************************************************)
(* Verification model of catalog-automation-engine: the three validators   *)
(* (price, SKU, inventory), the metrics aggregator and the pipeline of     *)
(* main() that merges their outputs.                                       *)
(*                                                                         *)
(* Representation choices                                                  *)
(*  - a DataFrame is a sequence of rows [sku, price, inventory_count];     *)
(*  - a cell is a record [kind, v]: kind says what Python object the cell  *)
(*    holds, v its numeric value when it has one;                          *)
(*  - prices are counted in cents (0.01 = 1), which is exact for the       *)
(*    two-decimal values and thresholds used here;                         *)
(*  - a fractional float is counted in halves (v = 7 is 3.5);              *)
(*  - a sku is a tuple of one-character strings, so that the regular       *)
(*    expression can be matched character by character;                    *)
(*  - an error dict is [sku, issue_type]; issue_description is a           *)
(*    formatted text that no operation reads back, and is left out;        *)
(*  - data_integrity_score is counted in hundredths (10000 = 100.00).      *)
(***************************************************************************)
EXTENDS Integers, Sequences, FiniteSets, TLC

VARIABLES
    pc,                  \* position of the running call / of main()
    df,                  \* the record set under validation
    min_price,           \* PriceValidator.min_price
    max_price,           \* PriceValidator.max_price
    sku_pattern,         \* SKUValidator.sku_pattern
    min_inventory,       \* InventoryValidator.min_inventory
    low_stock_threshold, \* InventoryValidator.low_stock_threshold
    price_errors,        \* list returned by PriceValidator.validate
    sku_errors,          \* list returned by SKUValidator.validate
    inv_errors,          \* list returned by InventoryValidator.validate
    all_errors,          \* main(): merged list; calculate_metrics: its argument
    total_records,       \* calculate_metrics: its second argument
    metrics,             \* dict returned by calculate_metrics
    exc,                 \* exception that left the running call, or "none"
    executive_summary,   \* what generate_executive_summary returned
    env_key,             \* OPENAI_API_KEY is set in the environment
    api_key,             \* ai.llm_summary.api_key holds a key
    ai_outcome,          \* how the call of generate_ai_summary ended
    llm_called,          \* openai.ChatCompletion.create has been called
    table,               \* rows of the products table of the database file
    record_count,        \* what DBManager.load_csv returned
    duplicates           \* what DBManager.detect_duplicate_skus returned

vars == <<pc, df, min_price, max_price, sku_pattern, min_inventory,
          low_stock_threshold, price_errors, sku_errors, inv_errors,
          all_errors, total_records, metrics, exc, executive_summary,
          env_key, api_key, ai_outcome, llm_called,
          table, record_count, duplicates>>

(***************************************************************************)
(* Bounds of the model                                                     *)
(***************************************************************************)
MaxPriceRows == 2
MaxSkuRows == 4
MaxInvRows == 2
MaxErrors == 4
MaxTotal == 3
MaxRows == 2
MaxSummaryInvalid == 6
MaxTopErrors == 7
MaxTwiceRows == 3
MaxSummaryTotal == 40
MaxDbRows == 3
MaxLoads == 3

(***************************************************************************)
(* config.py                                                               *)
(***************************************************************************)
MIN_PRICE == 1
MAX_PRICE == 999999
MIN_INVENTORY == 0
LOW_STOCK_THRESHOLD == 5
\* r"^SKU-\d{5}$", one token per element; \d{5} is written out
SKU_PATTERN == <<"^", "S", "K", "U", "-", "\\d", "\\d", "\\d", "\\d", "\\d", "$">>

(***************************************************************************)
(* Cells                                                                   *)
(***************************************************************************)
Cell(k, n) == [kind |-> k, v |-> n]
Text == Cell("text", 0)      \* a string that is no number, such as "abc"
None == Cell("none", 0)      \* Python None
NaN == Cell("nan", 0)        \* float nan: what pandas gives an empty cell
PosInf == Cell("inf", 0)     \* float inf
NegInf == Cell("ninf", 0)    \* float -inf
Num(n) == Cell("num", n)     \* an integral number (or a string holding one)
Frac(h) == Cell("frac", h)   \* the float h/2, h odd

\* sku values, as tuples of characters
Sku1 == <<"S", "K", "U", "-", "0", "0", "0", "0", "1">>
Sku2 == <<"S", "K", "U", "-", "0", "0", "0", "0", "2">>
SkuBad == <<"A", "B", "C", "-", "1">>
SkuNewline == Sku1 \o <<"\n">>
SkuLong == Sku1 \o <<"1">>

Err(s, t) == [sku |-> s, issue_type |-> t]

\* all sequences over S of length 0..n
SeqUpTo(S, n) == UNION {[1..k -> S] : k \in 0..n}

(***************************************************************************)
(* PriceValidator                                                          *)
(***************************************************************************)
\* float(price): raises ValueError on text, TypeError on None
float_raises(price) == price.kind \in {"text", "none"}

\* price_value <= bound, for a finite bound (IEEE: nan compares false)
float_le(x, bound) ==
    CASE x.kind = "nan" -> FALSE
      [] x.kind = "inf" -> FALSE
      [] x.kind = "ninf" -> TRUE
      [] x.kind = "frac" -> x.v <= 2 * bound
      [] OTHER -> x.v <= bound

\* price_value >= bound, for a finite bound
float_ge(x, bound) ==
    CASE x.kind = "nan" -> FALSE
      [] x.kind = "inf" -> TRUE
      [] x.kind = "ninf" -> FALSE
      [] x.kind = "frac" -> x.v >= 2 * bound
      [] OTHER -> x.v >= bound

\* mutant: the range checks made inclusive (< and > for <= and >=)
price_row_errors_inclusive(row, lo, hi) ==
    IF float_raises(row.price) THEN <<Err(row.sku, "invalid_price_format")>>
    ELSE IF float_le(row.price, lo) /\ ~float_ge(row.price, lo)
        THEN <<Err(row.sku, "price_too_low")>>
    ELSE IF float_ge(row.price, hi) /\ ~float_le(row.price, hi)
        THEN <<Err(row.sku, "price_too_high")>>
    ELSE <<>>

\* the body of the loop of PriceValidator.validate for one row
price_row_errors(row, lo, hi) ==
    IF float_raises(row.price) THEN <<Err(row.sku, "invalid_price_format")>>
    ELSE IF float_le(row.price, lo) THEN <<Err(row.sku, "price_too_low")>>
    ELSE IF float_ge(row.price, hi) THEN <<Err(row.sku, "price_too_high")>>
    ELSE <<>>

RECURSIVE price_scan(_, _, _, _, _)
price_scan(frame, i, lo, hi, errors) ==
    IF i > Len(frame) THEN errors
    ELSE price_scan(frame, i + 1, lo, hi,
                    errors \o price_row_errors(frame[i], lo, hi))

PriceValidator_validate(frame, lo, hi) == price_scan(frame, 1, lo, hi, <<>>)

(***************************************************************************)
(* State machine: a call of PriceValidator.validate                        *)
(***************************************************************************)
PriceCells == {Text, None, NaN, PosInf, NegInf,
               Num(0), Num(1), Num(2), Num(999998), Num(999999), Num(1000000),
               Frac(1), Frac(3)}
PriceBounds == {1, 2, 999999}
PriceFrames ==
    SeqUpTo([sku : {Sku1, SkuBad}, price : PriceCells, inventory_count : {Num(10)}],
            MaxPriceRows)

\* the value of metrics before calculate_metrics has returned
NoMetrics ==
    [total_records |-> 0, valid_records |-> 0, invalid_records |-> 0,
     data_integrity_score |-> 0, total_errors |-> 0, top_5_issues |-> <<>>]

\* the value of executive_summary before generate_executive_summary returns
NoSummary ==
    [health_status |-> "", health_verb |-> "", top_issues |-> <<>>,
     template |-> ""]

Idle ==
    /\ price_errors = <<>>
    /\ sku_errors = <<>>
    /\ inv_errors = <<>>
    /\ all_errors = <<>>
    /\ total_records = 0
    /\ metrics = NoMetrics
    /\ exc = "none"
    /\ executive_summary = NoSummary
    /\ ai_outcome = "none"
    /\ llm_called = FALSE

\* no key in the environment, at import and since
NoKey ==
    /\ env_key = FALSE
    /\ api_key = FALSE

\* the database file does not exist yet, and no DBManager call has returned
NoDatabase ==
    /\ table = <<>>
    /\ record_count = 0
    /\ duplicates = <<>>

InitPrice ==
    /\ pc = "price_call"
    /\ df \in PriceFrames
    /\ min_price \in PriceBounds
    /\ max_price \in PriceBounds
    /\ sku_pattern = SKU_PATTERN
    /\ min_inventory = MIN_INVENTORY
    /\ low_stock_threshold = LOW_STOCK_THRESHOLD
    /\ Idle
    /\ NoKey
    /\ NoDatabase

PriceValidate ==
    /\ pc = "price_call"
    /\ price_errors' = PriceValidator_validate(df, min_price, max_price)
    /\ pc' = "price_returned"
    /\ UNCHANGED <<table, record_count, duplicates>>
    /\ UNCHANGED <<df, min_price, max_price, sku_pattern, min_inventory,
                   low_stock_threshold, sku_errors, inv_errors, all_errors,
                   total_records, metrics, exc>>
    /\ UNCHANGED <<executive_summary, env_key, api_key, ai_outcome, llm_called>>

SpecPrice == InitPrice /\ [][PriceValidate]_vars

(***************************************************************************)
(* SKUValidator                                                            *)
(***************************************************************************)
Digits == {"0", "1", "2", "3", "4", "5", "6", "7", "8", "9"}

\* the regex engine on the token list `pattern` from token j, at position i
\* of the string s; TRUE when the rest of the pattern matches there. As in
\* Python without re.MULTILINE, "^" matches at the start of the string and
\* "$" at its end or just before a newline that ends it.
RECURSIVE match_here(_, _, _, _)
match_here(pattern, j, s, i) ==
    IF j > Len(pattern) THEN TRUE
    ELSE CASE pattern[j] = "^" ->
                  i = 1 /\ match_here(pattern, j + 1, s, i)
           [] pattern[j] = "$" ->
                  /\ \/ i = Len(s) + 1
                     \/ i = Len(s) /\ s[i] = "\n"
                  /\ match_here(pattern, j + 1, s, i)
           [] pattern[j] = "\\d" ->
                  i <= Len(s) /\ s[i] \in Digits
                      /\ match_here(pattern, j + 1, s, i + 1)
           [] OTHER ->
                  i <= Len(s) /\ s[i] = pattern[j]
                      /\ match_here(pattern, j + 1, s, i + 1)

\* re.match(pattern, s): a match starting at the first character
re_match(pattern, s) == match_here(pattern, 1, s, 1)

\* Counter(sku_column)[sku]
sku_counts(frame, sku) == Cardinality({i \in 1..Len(frame) : frame[i].sku = sku})

\* the "Check format" statement of the loop, for one row
sku_format_errors(row, pattern) ==
    IF ~re_match(pattern, row.sku)
    THEN <<Err(row.sku, "invalid_sku_format")>> ELSE <<>>

\* mutant: the seen-set is not consulted, every duplicate row is reported
sku_is_duplicate_row(frame, row, reported_duplicates) ==
    sku_counts(frame, row.sku) > 1

\* the "Check duplicates" condition of the loop, for one row
sku_is_new_duplicate(frame, row, reported_duplicates) ==
    sku_counts(frame, row.sku) > 1 /\ row.sku \notin reported_duplicates

RECURSIVE sku_scan(_, _, _, _, _)
sku_scan(frame, i, pattern, errors, reported_duplicates) ==
    IF i > Len(frame) THEN errors
    ELSE LET row == frame[i]
             dup == sku_is_new_duplicate(frame, row, reported_duplicates)
         IN sku_scan(frame, i + 1, pattern,
                     errors \o sku_format_errors(row, pattern)
                            \o (IF dup THEN <<Err(row.sku, "duplicate_sku")>>
                                ELSE <<>>),
                     IF dup THEN reported_duplicates \cup {row.sku}
                     ELSE reported_duplicates)

\* mutant: the seen-set lives on the validator, and holds what the previous
\* call of validate reported
reported_duplicates_kept ==
    {sku_errors[k].sku :
        k \in {j \in 1..Len(sku_errors) : sku_errors[j].issue_type = "duplicate_sku"}}

\* reported_duplicates = set(): the seen-set is a local of validate
reported_duplicates_init == {}

SKUValidator_validate(frame, pattern) ==
    sku_scan(frame, 1, pattern, <<>>, reported_duplicates_init)

(***************************************************************************)
(* State machine: a call of SKUValidator.validate                          *)
(***************************************************************************)
\* a pattern a caller may configure: the default without its anchors
UnanchoredPattern == <<"S", "K", "U", "-", "\\d", "\\d", "\\d", "\\d", "\\d">>
SkuValues == {Sku1, Sku2, SkuBad, SkuNewline, SkuLong}
SkuFrames ==
    SeqUpTo([sku : SkuValues, price : {Num(500)}, inventory_count : {Num(10)}],
            MaxSkuRows)

InitSku ==
    /\ pc = "sku_call"
    /\ df \in SkuFrames
    /\ sku_pattern \in {SKU_PATTERN, UnanchoredPattern}
    /\ min_price = MIN_PRICE
    /\ max_price = MAX_PRICE
    /\ min_inventory = MIN_INVENTORY
    /\ low_stock_threshold = LOW_STOCK_THRESHOLD
    /\ Idle
    /\ NoKey
    /\ NoDatabase

SkuValidate ==
    /\ pc = "sku_call"
    /\ sku_errors' = SKUValidator_validate(df, sku_pattern)
    /\ pc' = "sku_returned"
    /\ UNCHANGED <<table, record_count, duplicates>>
    /\ UNCHANGED <<df, min_price, max_price, sku_pattern, min_inventory,
                   low_stock_threshold, price_errors, inv_errors, all_errors,
                   total_records, metrics, exc>>
    /\ UNCHANGED <<executive_summary, env_key, api_key, ai_outcome, llm_called>>

SpecSku == InitSku /\ [][SkuValidate]_vars

(***************************************************************************)
(* InventoryValidator                                                      *)
(***************************************************************************)
\* the exception int(inventory) raises, "none" when it returns: ValueError
\* on text and on nan, TypeError on None, OverflowError on an infinity
int_raises(inventory) ==
    CASE inventory.kind \in {"text", "nan"} -> "ValueError"
      [] inventory.kind = "none" -> "TypeError"
      [] inventory.kind \in {"inf", "ninf"} -> "OverflowError"
      [] OTHER -> "none"

\* int(inventory) when it returns: a float is truncated towards zero
int_value(inventory) ==
    IF inventory.kind = "frac"
    THEN IF inventory.v >= 0 THEN inventory.v \div 2
         ELSE -((-inventory.v) \div 2)
    ELSE inventory.v

\* the exceptions the except clause of the loop catches
inventory_caught == {"ValueError", "TypeError"}

\* mutant: the warning is filed under an issue type of its own
inventory_row_errors_low_stock(row, lo, threshold) ==
    IF int_raises(row.inventory_count) \in inventory_caught
        THEN <<Err(row.sku, "invalid_inventory_format")>>
    ELSE IF int_value(row.inventory_count) < lo
        THEN <<Err(row.sku, "negative_inventory")>>
    ELSE IF int_value(row.inventory_count) < threshold
        THEN <<Err(row.sku, "low_stock")>>
    ELSE <<>>

\* the body of the loop of InventoryValidator.validate for one row, when
\* no exception leaves it
inventory_row_errors(row, lo, threshold) ==
    IF int_raises(row.inventory_count) \in inventory_caught
        THEN <<Err(row.sku, "invalid_inventory_format")>>
    ELSE IF int_value(row.inventory_count) < lo
        THEN <<Err(row.sku, "negative_inventory")>>
    ELSE IF int_value(row.inventory_count) < threshold
        THEN <<Err(row.sku, "low_stock_warning")>>
    ELSE <<>>

\* the loop; an exception that is not caught ends the call without a list
RECURSIVE inventory_scan(_, _, _, _, _)
inventory_scan(frame, i, lo, threshold, errors) ==
    IF i > Len(frame) THEN [exc |-> "none", errors |-> errors]
    ELSE LET raised == int_raises(frame[i].inventory_count)
         IN IF raised \notin inventory_caught \cup {"none"}
            THEN [exc |-> raised, errors |-> <<>>]
            ELSE inventory_scan(frame, i + 1, lo, threshold,
                     errors \o inventory_row_errors(frame[i], lo, threshold))

InventoryValidator_validate(frame, lo, threshold) ==
    inventory_scan(frame, 1, lo, threshold, <<>>)

(***************************************************************************)
(* State machine: a call of InventoryValidator.validate                    *)
(***************************************************************************)
InventoryCells == {Text, None, NaN, PosInf, Num(-1), Num(0), Num(1), Num(4),
                   Num(5), Num(6), Frac(-1), Frac(9), Frac(11)}
InventoryFrames ==
    SeqUpTo([sku : {Sku1, SkuBad}, price : {Num(500)},
             inventory_count : InventoryCells], MaxInvRows)

InitInv ==
    /\ pc = "inv_call"
    /\ df \in InventoryFrames
    /\ min_inventory \in {MIN_INVENTORY, 1}
    /\ low_stock_threshold \in {LOW_STOCK_THRESHOLD, 0}
    /\ min_price = MIN_PRICE
    /\ max_price = MAX_PRICE
    /\ sku_pattern = SKU_PATTERN
    /\ Idle
    /\ NoKey
    /\ NoDatabase

InvValidate ==
    /\ pc = "inv_call"
    /\ LET r == InventoryValidator_validate(df, min_inventory, low_stock_threshold)
       IN /\ exc' = r.exc
          /\ inv_errors' = r.errors
          /\ pc' = IF r.exc = "none" THEN "inv_returned" ELSE "inv_raised"
    /\ UNCHANGED <<table, record_count, duplicates>>
    /\ UNCHANGED <<df, min_price, max_price, sku_pattern, min_inventory,
                   low_stock_threshold, price_errors, sku_errors, all_errors,
                   total_records, metrics>>
    /\ UNCHANGED <<executive_summary, env_key, api_key, ai_outcome, llm_called>>

SpecInv == InitInv /\ [][InvValidate]_vars

(***************************************************************************)
(* State machine: each validator called twice on one record set            *)
(***************************************************************************)
TwiceFrames ==
    SeqUpTo([sku : {Sku1, SkuBad}, price : {Text, Num(500)},
             inventory_count : {Text, PosInf, Num(3)}], MaxTwiceRows)

InitTwice ==
    /\ pc = "price_1"
    /\ df \in TwiceFrames
    /\ min_price = MIN_PRICE
    /\ max_price = MAX_PRICE
    /\ sku_pattern = SKU_PATTERN
    /\ min_inventory = MIN_INVENTORY
    /\ low_stock_threshold = LOW_STOCK_THRESHOLD
    /\ Idle
    /\ NoKey
    /\ NoDatabase

\* price_validator.validate(df), the first and the second time
TwicePrice ==
    /\ pc \in {"price_1", "price_2"}
    /\ price_errors' = PriceValidator_validate(df, min_price, max_price)
    /\ pc' = IF pc = "price_1" THEN "price_2" ELSE "sku_1"
    /\ UNCHANGED <<table, record_count, duplicates>>
    /\ UNCHANGED <<df, min_price, max_price, sku_pattern, min_inventory,
                   low_stock_threshold, sku_errors, inv_errors, all_errors,
                   total_records, metrics, exc, executive_summary, env_key,
                   api_key, ai_outcome, llm_called>>

\* sku_validator.validate(df), the first and the second time
TwiceSku ==
    /\ pc \in {"sku_1", "sku_2"}
    /\ sku_errors' = SKUValidator_validate(df, sku_pattern)
    /\ pc' = IF pc = "sku_1" THEN "sku_2" ELSE "inv_1"
    /\ UNCHANGED <<table, record_count, duplicates>>
    /\ UNCHANGED <<df, min_price, max_price, sku_pattern, min_inventory,
                   low_stock_threshold, price_errors, inv_errors, all_errors,
                   total_records, metrics, exc, executive_summary, env_key,
                   api_key, ai_outcome, llm_called>>

\* inv_validator.validate(df), the first and the second time
TwiceInv ==
    /\ pc \in {"inv_1", "inv_2"}
    /\ LET r == InventoryValidator_validate(df, min_inventory, low_stock_threshold)
       IN /\ exc' = r.exc
          /\ inv_errors' = r.errors
    /\ pc' = IF pc = "inv_1" THEN "inv_2" ELSE "twice_done"
    /\ UNCHANGED <<table, record_count, duplicates>>
    /\ UNCHANGED <<df, min_price, max_price, sku_pattern, min_inventory,
                   low_stock_threshold, price_errors, sku_errors, all_errors,
                   total_records, metrics, executive_summary, env_key,
                   api_key, ai_outcome, llm_called>>

SpecTwice == InitTwice /\ [][TwicePrice \/ TwiceSku \/ TwiceInv]_vars

(***************************************************************************)
(* reporting/metrics.py: calculate_metrics                                 *)
(***************************************************************************)
\* set(err["sku"] for err in validation_errors), built as the generator runs
RECURSIVE sku_set(_, _, _)
sku_set(errors, i, acc) ==
    IF i > Len(errors) THEN acc
    ELSE sku_set(errors, i + 1, acc \cup {errors[i].sku})

\* mutant: every error counts, not every distinct sku
count_invalid_per_error(errors) == Len(errors)

\* invalid_records
count_invalid(errors) == Cardinality(sku_set(errors, 1, {}))

\* mutant: the invalid records are added
valid_records_added(total, invalid) == total + invalid

\* valid_records
valid_records(total, invalid) == total - invalid

\* round(n / d, 0) for d > 0: to the nearest integer, a tie to the even one
round_half_even(n, d) ==
    LET q == n \div d
        r == n % d
    IN IF 2 * r < d THEN q
       ELSE IF 2 * r > d THEN q + 1
       ELSE IF q % 2 = 0 THEN q ELSE q + 1

\* mutant: the score is cut after two decimals, not rounded
score_truncated(valid, total) ==
    IF total > 0 THEN (valid * 10000) \div total ELSE 0

\* round(valid / total * 100 if total > 0 else 0, 2), in hundredths
data_integrity_score(valid, total) ==
    IF total > 0 THEN round_half_even(valid * 10000, total) ELSE 0

\* Counter(err["issue_type"] ...): the pairs <<issue_type, count>> in the
\* order in which the issue types are first seen
RECURSIVE issue_counter(_, _, _)
issue_counter(errors, i, acc) ==
    IF i > Len(errors) THEN acc
    ELSE LET t == errors[i].issue_type
             at == {k \in 1..Len(acc) : acc[k][1] = t}
         IN issue_counter(errors, i + 1,
                IF at = {} THEN Append(acc, <<t, 1>>)
                ELSE [k \in 1..Len(acc) |->
                         IF k \in at THEN <<t, acc[k][2] + 1>> ELSE acc[k]])

\* mutant: the element goes before the elements of the same count
RECURSIVE insert_before_ties(_, _)
insert_before_ties(sorted, item) ==
    IF sorted = <<>> THEN <<item>>
    ELSE IF Head(sorted)[2] > item[2]
        THEN <<Head(sorted)>> \o insert_before_ties(Tail(sorted), item)
    ELSE <<item>> \o sorted

\* one element put into a list sorted by decreasing count, after the
\* elements of the same count (the sort is stable)
RECURSIVE insert_by_count(_, _)
insert_by_count(sorted, item) ==
    IF sorted = <<>> THEN <<item>>
    ELSE IF Head(sorted)[2] >= item[2]
        THEN <<Head(sorted)>> \o insert_by_count(Tail(sorted), item)
    ELSE <<item>> \o sorted

RECURSIVE sort_by_count(_, _, _)
sort_by_count(items, i, acc) ==
    IF i > Len(items) THEN acc
    ELSE sort_by_count(items, i + 1, insert_by_count(acc, items[i]))

\* Counter.most_common(n)
most_common(counter, n) ==
    LET sorted == sort_by_count(counter, 1, <<>>)
    IN SubSeq(sorted, 1, IF Len(sorted) < n THEN Len(sorted) ELSE n)

calculate_metrics(validation_errors, total) ==
    LET invalid == count_invalid(validation_errors)
        valid == valid_records(total, invalid)
    IN [total_records |-> total,
        valid_records |-> valid,
        invalid_records |-> invalid,
        data_integrity_score |-> data_integrity_score(valid, total),
        total_errors |-> Len(validation_errors),
        top_5_issues |-> most_common(issue_counter(validation_errors, 1, <<>>), 5)]

(***************************************************************************)
(* State machine: a call of calculate_metrics                              *)
(***************************************************************************)
MetricsErrors ==
    [sku : {Sku1, Sku2, SkuBad},
     issue_type : {"price_too_low", "duplicate_sku", "low_stock_warning"}]

InitMetrics ==
    /\ pc = "metrics_call"
    /\ all_errors \in SeqUpTo(MetricsErrors, MaxErrors)
    /\ total_records \in 0..MaxTotal
    /\ df = <<>>
    /\ min_price = MIN_PRICE
    /\ max_price = MAX_PRICE
    /\ sku_pattern = SKU_PATTERN
    /\ min_inventory = MIN_INVENTORY
    /\ low_stock_threshold = LOW_STOCK_THRESHOLD
    /\ price_errors = <<>>
    /\ sku_errors = <<>>
    /\ inv_errors = <<>>
    /\ metrics = NoMetrics
    /\ exc = "none"
    /\ executive_summary = NoSummary
    /\ ai_outcome = "none"
    /\ llm_called = FALSE
    /\ NoKey
    /\ NoDatabase

CalculateMetrics ==
    /\ pc = "metrics_call"
    /\ metrics' = calculate_metrics(all_errors, total_records)
    /\ pc' = "metrics_returned"
    /\ UNCHANGED <<table, record_count, duplicates>>
    /\ UNCHANGED <<df, min_price, max_price, sku_pattern, min_inventory,
                   low_stock_threshold, price_errors, sku_errors, inv_errors,
                   all_errors, total_records, exc>>
    /\ UNCHANGED <<executive_summary, env_key, api_key, ai_outcome, llm_called>>

SpecMetrics == InitMetrics /\ [][CalculateMetrics]_vars

(***************************************************************************)
(* State machine: calculate_metrics on error lists of many issue types     *)
(***************************************************************************)
\* calculate_metrics only compares issue types for equality, so the error
\* lists are taken up to a renaming of the types: the types make their first
\* appearance in the order of TopOrder
TopOrder == <<"price_too_low", "invalid_sku_format", "duplicate_sku",
              "invalid_price_format", "low_stock_warning", "negative_inventory">>
TopRank(t) == CHOOSE r \in 1..Len(TopOrder) : TopOrder[r] = t
InOrderOfAppearance(errors) ==
    \A i \in 1..Len(errors) :
        \A r \in 1..(TopRank(errors[i].issue_type) - 1) :
            \E j \in 1..(i - 1) : errors[j].issue_type = TopOrder[r]
TopErrors == [sku : {Sku1}, issue_type : {TopOrder[r] : r \in 1..Len(TopOrder)}]

InitTop ==
    /\ pc = "metrics_call"
    /\ \E k \in 0..MaxTopErrors :
          /\ all_errors \in [1..k -> TopErrors]
          /\ InOrderOfAppearance(all_errors)
    /\ total_records = 1
    /\ df = <<>>
    /\ min_price = MIN_PRICE
    /\ max_price = MAX_PRICE
    /\ sku_pattern = SKU_PATTERN
    /\ min_inventory = MIN_INVENTORY
    /\ low_stock_threshold = LOW_STOCK_THRESHOLD
    /\ price_errors = <<>>
    /\ sku_errors = <<>>
    /\ inv_errors = <<>>
    /\ metrics = NoMetrics
    /\ exc = "none"
    /\ executive_summary = NoSummary
    /\ ai_outcome = "none"
    /\ llm_called = FALSE
    /\ NoKey
    /\ NoDatabase

SpecTop == InitTop /\ [][CalculateMetrics]_vars

(***************************************************************************)
(* reporting/metrics.py: generate_executive_summary                        *)
(***************************************************************************)
\* invalid_pct < bound, where invalid_pct = invalid / total * 100 if
\* total > 0 else 0 (the quotient is compared exactly; over the totals of
\* the model the float comparison gives the same answer)
invalid_pct_lt(invalid, total, bound) ==
    IF total > 0 THEN invalid * 100 < bound * total ELSE 0 < bound

\* mutant: the boundary scores fall in the lower band
health_band_exclusive(score) ==
    IF score > 9000 THEN <<"excellent", "demonstrates">>
    ELSE IF score > 7500 THEN <<"good", "shows">>
    ELSE IF score > 5000 THEN <<"fair", "indicates">>
    ELSE <<"poor", "reveals">>

\* health_status and health_verb, from the score in hundredths
health_band(score) ==
    IF score >= 9000 THEN <<"excellent", "demonstrates">>
    ELSE IF score >= 7500 THEN <<"good", "shows">>
    ELSE IF score >= 5000 THEN <<"fair", "indicates">>
    ELSE <<"poor", "reveals">>

\* issue_names: the first three of top_5_issues with int(count / errors * 100)
issue_names(top_issues, errors) ==
    [k \in 1..(IF Len(top_issues) < 3 THEN Len(top_issues) ELSE 3) |->
        [issue_type |-> top_issues[k][1],
         pct |-> IF errors > 0 THEN (top_issues[k][2] * 100) \div errors ELSE 0]]

\* mutant: the boundaries 5 and 15 fall in the lower template
select_template_inclusive(invalid, total) ==
    IF invalid = 0 THEN "no_issues"
    ELSE IF invalid_pct_lt(invalid, total, 5) \/ invalid * 100 = 5 * total
        THEN "minimal"
    ELSE IF invalid_pct_lt(invalid, total, 15) \/ invalid * 100 = 15 * total
        THEN "moderate"
    ELSE "significant"

\* the paragraph chosen by the if / elif chain that builds the summary:
\* "no_issues" is the text "identified no data integrity issues ... perfect
\* ... integrity score", "minimal" the text "minimal remediation required",
\* "moderate" the text "moderate data quality concerns", "significant" the
\* text "significant data integrity issues"
select_template(invalid, total) ==
    IF invalid = 0 THEN "no_issues"
    ELSE IF invalid_pct_lt(invalid, total, 5) THEN "minimal"
    ELSE IF invalid_pct_lt(invalid, total, 15) THEN "moderate"
    ELSE "significant"

generate_executive_summary(m) ==
    [health_status |-> health_band(m.data_integrity_score)[1],
     health_verb |-> health_band(m.data_integrity_score)[2],
     top_issues |-> issue_names(m.top_5_issues, m.total_errors),
     template |-> select_template(m.invalid_records, m.total_records)]

(***************************************************************************)
(* State machine: calculate_metrics, then generate_executive_summary       *)
(***************************************************************************)
DigitChars == <<"1", "2", "3", "4", "5", "6", "7", "8", "9">>
\* the i-th of nine well-formed skus
SkuN(i) == <<"S", "K", "U", "-", "0", "0", "0", "0", DigitChars[i]>>
SummaryTypes == <<"price_too_low", "duplicate_sku", "low_stock_warning">>
\* an error list that names n distinct skus
SummaryErrors(n) == [i \in 1..n |-> Err(SkuN(i), SummaryTypes[(i % 3) + 1])]

InitSummary ==
    /\ pc = "metrics_call"
    /\ \E n \in 0..MaxSummaryInvalid : all_errors = SummaryErrors(n)
    /\ total_records \in 0..MaxSummaryTotal
    /\ df = <<>>
    /\ min_price = MIN_PRICE
    /\ max_price = MAX_PRICE
    /\ sku_pattern = SKU_PATTERN
    /\ min_inventory = MIN_INVENTORY
    /\ low_stock_threshold = LOW_STOCK_THRESHOLD
    /\ price_errors = <<>>
    /\ sku_errors = <<>>
    /\ inv_errors = <<>>
    /\ metrics = NoMetrics
    /\ exc = "none"
    /\ executive_summary = NoSummary
    /\ ai_outcome = "none"
    /\ llm_called = FALSE
    /\ NoKey
    /\ NoDatabase

GenerateExecutiveSummary ==
    /\ pc = "metrics_returned"
    /\ executive_summary' = generate_executive_summary(metrics)
    /\ pc' = "summary_returned"
    /\ UNCHANGED <<table, record_count, duplicates>>
    /\ UNCHANGED <<df, min_price, max_price, sku_pattern, min_inventory,
                   low_stock_threshold, price_errors, sku_errors, inv_errors,
                   all_errors, total_records, metrics, exc, env_key, api_key,
                   ai_outcome, llm_called>>

SpecSummary == InitSummary /\ [][CalculateMetrics \/ GenerateExecutiveSummary]_vars

(***************************************************************************)
(* ai/llm_summary.py: generate_ai_summary                                  *)
(***************************************************************************)
\* what openai.ChatCompletion.create may do: return a completion, return
\* no choices, or raise
LlmResponses == {"content", "no_choices", "api_error"}

\* key = api_key or os.getenv("OPENAI_API_KEY"): api_key is the value read
\* when the module was imported, env the environment at the call
key_found(api, env) == api \/ env

\* the call: how it ends, and whether the LLM was called. The prompt it
\* builds is only sent out, and is not represented.
generate_ai_summary(api, env, response) ==
    IF ~key_found(api, env)
    THEN [outcome |-> "RuntimeError", called |-> FALSE]
    ELSE [outcome |-> CASE response = "content" -> "returned"
                        [] response = "no_choices" -> "RuntimeError"
                        [] OTHER -> "APIError",
          called |-> TRUE]

(***************************************************************************)
(* State machine: the module is imported, the environment changes, and     *)
(* generate_ai_summary is called                                           *)
(***************************************************************************)
InitAi ==
    /\ pc = "ai_imported"
    /\ env_key \in BOOLEAN
    /\ api_key = env_key
    /\ \E n \in 0..MaxSummaryInvalid, t \in 0..MaxSummaryTotal :
          /\ all_errors = SummaryErrors(n)
          /\ total_records = t
          /\ metrics = calculate_metrics(SummaryErrors(n), t)
    /\ df = <<>>
    /\ min_price = MIN_PRICE
    /\ max_price = MAX_PRICE
    /\ sku_pattern = SKU_PATTERN
    /\ min_inventory = MIN_INVENTORY
    /\ low_stock_threshold = LOW_STOCK_THRESHOLD
    /\ price_errors = <<>>
    /\ sku_errors = <<>>
    /\ inv_errors = <<>>
    /\ exc = "none"
    /\ executive_summary = NoSummary
    /\ ai_outcome = "none"
    /\ llm_called = FALSE
    /\ NoDatabase

\* os.environ["OPENAI_API_KEY"] = ... (monkeypatch.setenv)
SetEnvKey ==
    /\ pc = "ai_imported"
    /\ ~env_key
    /\ env_key' = TRUE
    /\ UNCHANGED <<table, record_count, duplicates>>
    /\ UNCHANGED <<pc, df, min_price, max_price, sku_pattern, min_inventory,
                   low_stock_threshold, price_errors, sku_errors, inv_errors,
                   all_errors, total_records, metrics, exc, executive_summary,
                   api_key, ai_outcome, llm_called>>

\* del os.environ["OPENAI_API_KEY"] (monkeypatch.delenv)
DelEnvKey ==
    /\ pc = "ai_imported"
    /\ env_key
    /\ env_key' = FALSE
    /\ UNCHANGED <<table, record_count, duplicates>>
    /\ UNCHANGED <<pc, df, min_price, max_price, sku_pattern, min_inventory,
                   low_stock_threshold, price_errors, sku_errors, inv_errors,
                   all_errors, total_records, metrics, exc, executive_summary,
                   api_key, ai_outcome, llm_called>>

GenerateAiSummary ==
    /\ pc = "ai_imported"
    /\ \E response \in LlmResponses :
          LET r == generate_ai_summary(api_key, env_key, response)
          IN /\ ai_outcome' = r.outcome
             /\ llm_called' = r.called
             /\ exc' = IF r.outcome = "returned" THEN "none" ELSE r.outcome
             /\ pc' = IF r.outcome = "returned" THEN "ai_returned" ELSE "ai_raised"
    /\ UNCHANGED <<table, record_count, duplicates>>
    /\ UNCHANGED <<df, min_price, max_price, sku_pattern, min_inventory,
                   low_stock_threshold, price_errors, sku_errors, inv_errors,
                   all_errors, total_records, metrics, executive_summary,
                   env_key, api_key>>

SpecAi == InitAi /\ [][SetEnvKey \/ DelEnvKey \/ GenerateAiSummary]_vars

(***************************************************************************)
(* database/db_manager.py: DBManager                                       *)
(***************************************************************************)
\* the rows that to_sql inserts for a frame: the columns of the frame, and
\* the id that AUTOINCREMENT gives after `start` rows
inserted_rows(frame, start) ==
    [i \in 1..Len(frame) |->
        [id |-> start + i, sku |-> frame[i].sku, price |-> frame[i].price,
         inventory_count |-> frame[i].inventory_count]]

\* df.to_sql(table_name, connection, if_exists="append", index=False), after
\* CREATE TABLE IF NOT EXISTS has left an existing table as it is
to_sql_append(tbl, frame) == tbl \o inserted_rows(frame, Len(tbl))

\* load_csv: the table after the call, and the value returned
load_csv(tbl, frame) ==
    [table |-> to_sql_append(tbl, frame), returned |-> Len(frame)]

\* SELECT sku, COUNT(*) ... GROUP BY sku HAVING COUNT(*) > 1
duplicate_groups(tbl) ==
    LET skus == {tbl[i].sku : i \in 1..Len(tbl)}
        count(s) == Cardinality({i \in 1..Len(tbl) : tbl[i].sku = s})
    IN {[sku |-> s, occurrence_count |-> count(s)] : s \in {x \in skus : count(x) > 1}}

\* detect_duplicate_skus: the lists it may return. ORDER BY occurrence_count
\* DESC leaves the order of groups of equal count to the database.
detect_duplicate_skus(tbl) ==
    LET groups == duplicate_groups(tbl)
        n == Cardinality(groups)
    IN {r \in [1..n -> groups] :
           /\ \A i, j \in 1..n : i # j => r[i] # r[j]
           /\ \A i, j \in 1..n :
                 i < j => r[i].occurrence_count >= r[j].occurrence_count}

(***************************************************************************)
(* State machine: load_csv and detect_duplicate_skus are called, any       *)
(* number of times, with one CSV on one database file                      *)
(***************************************************************************)
DbFrames ==
    SeqUpTo([sku : {Sku1, Sku2, SkuBad}, price : {Num(500)},
             inventory_count : {Num(10)}], MaxDbRows)

InitDb ==
    /\ pc = "db_open"
    /\ df \in DbFrames
    /\ min_price = MIN_PRICE
    /\ max_price = MAX_PRICE
    /\ sku_pattern = SKU_PATTERN
    /\ min_inventory = MIN_INVENTORY
    /\ low_stock_threshold = LOW_STOCK_THRESHOLD
    /\ Idle
    /\ NoKey
    /\ NoDatabase

\* db.load_csv(csv_path), at most MaxLoads times
LoadCsv ==
    /\ pc \in {"db_open", "db_loaded", "db_queried"}
    /\ Len(table) < MaxLoads * Len(df) \/ (df = <<>> /\ pc = "db_open")
    /\ LET r == load_csv(table, df)
       IN /\ table' = r.table
          /\ record_count' = r.returned
    /\ pc' = "db_loaded"
    /\ UNCHANGED <<df, min_price, max_price, sku_pattern, min_inventory,
                   low_stock_threshold, price_errors, sku_errors, inv_errors,
                   all_errors, total_records, metrics, exc, executive_summary,
                   env_key, api_key, ai_outcome, llm_called, duplicates>>

\* db.detect_duplicate_skus()
DetectDuplicateSkus ==
    /\ pc = "db_loaded"
    /\ duplicates' \in detect_duplicate_skus(table)
    /\ pc' = "db_queried"
    /\ UNCHANGED <<df, min_price, max_price, sku_pattern, min_inventory,
                   low_stock_threshold, price_errors, sku_errors, inv_errors,
                   all_errors, total_records, metrics, exc, executive_summary,
                   env_key, api_key, ai_outcome, llm_called, table,
                   record_count>>

SpecDb == InitDb /\ [][LoadCsv \/ DetectDuplicateSkus]_vars

(***************************************************************************)
(* main.py: the pipeline                                                   *)
(***************************************************************************)
\* mutant: the new errors are put in front of the merged list
extend_front(errors, new) == new \o errors

\* all_errors.extend(new)
extend(errors, new) == errors \o new

PipelineFrames ==
    SeqUpTo([sku : {Sku1, SkuBad},
             price : {Text, Num(0), Num(500), Num(1000000)},
             inventory_count : {Text, PosInf, Num(-1), Num(3), Num(10)}],
            MaxRows)

\* main() is entered; the validators it builds take the defaults of config.py,
\* and the import of ai.llm_summary has read OPENAI_API_KEY into api_key
Init ==
    /\ pc = "stage1"
    /\ df = <<>>
    /\ min_price = MIN_PRICE
    /\ max_price = MAX_PRICE
    /\ sku_pattern = SKU_PATTERN
    /\ min_inventory = MIN_INVENTORY
    /\ low_stock_threshold = LOW_STOCK_THRESHOLD
    /\ Idle
    /\ env_key \in BOOLEAN
    /\ api_key = env_key
    /\ NoDatabase

\* stage 1: pd.read_csv(DATA_PATH) returns the record set
Ingest ==
    /\ pc = "stage1"
    /\ \E frame \in PipelineFrames : df' = frame
    /\ pc' = "run_price"
    /\ UNCHANGED <<table, record_count, duplicates>>
    /\ UNCHANGED <<min_price, max_price, sku_pattern, min_inventory,
                   low_stock_threshold, price_errors, sku_errors, inv_errors,
                   all_errors, total_records, metrics, exc>>
    /\ UNCHANGED <<executive_summary, env_key, api_key, ai_outcome, llm_called>>

\* stage 1: the file is missing or cannot be read: sys.exit(1)
IngestFails ==
    /\ pc = "stage1"
    /\ pc' = "exit_1"
    /\ UNCHANGED <<table, record_count, duplicates>>
    /\ UNCHANGED <<df, min_price, max_price, sku_pattern, min_inventory,
                   low_stock_threshold, price_errors, sku_errors, inv_errors,
                   all_errors, total_records, metrics, exc>>
    /\ UNCHANGED <<executive_summary, env_key, api_key, ai_outcome, llm_called>>

\* stage 2, PriceValidator
RunPriceValidator ==
    /\ pc = "run_price"
    /\ price_errors' = PriceValidator_validate(df, min_price, max_price)
    /\ all_errors' = extend(all_errors, price_errors')
    /\ pc' = "run_sku"
    /\ UNCHANGED <<table, record_count, duplicates>>
    /\ UNCHANGED <<df, min_price, max_price, sku_pattern, min_inventory,
                   low_stock_threshold, sku_errors, inv_errors, total_records,
                   metrics, exc>>
    /\ UNCHANGED <<executive_summary, env_key, api_key, ai_outcome, llm_called>>

\* stage 2, SKUValidator
RunSKUValidator ==
    /\ pc = "run_sku"
    /\ sku_errors' = SKUValidator_validate(df, sku_pattern)
    /\ all_errors' = extend(all_errors, sku_errors')
    /\ pc' = "run_inventory"
    /\ UNCHANGED <<table, record_count, duplicates>>
    /\ UNCHANGED <<df, min_price, max_price, sku_pattern, min_inventory,
                   low_stock_threshold, price_errors, inv_errors, total_records,
                   metrics, exc>>
    /\ UNCHANGED <<executive_summary, env_key, api_key, ai_outcome, llm_called>>

\* stage 2, InventoryValidator; an exception that leaves validate is caught
\* by the except clause of the stage, which ends the run with sys.exit(1)
RunInventoryValidator ==
    /\ pc = "run_inventory"
    /\ LET r == InventoryValidator_validate(df, min_inventory, low_stock_threshold)
       IN IF r.exc = "none"
          THEN /\ inv_errors' = r.errors
               /\ all_errors' = extend(all_errors, inv_errors')
               /\ pc' = "stage3"
               /\ exc' = exc
          ELSE /\ exc' = r.exc
               /\ pc' = "exit_1"
               /\ UNCHANGED <<inv_errors, all_errors>>
    /\ UNCHANGED <<table, record_count, duplicates>>
    /\ UNCHANGED <<df, min_price, max_price, sku_pattern, min_inventory,
                   low_stock_threshold, price_errors, sku_errors, total_records,
                   metrics>>
    /\ UNCHANGED <<executive_summary, env_key, api_key, ai_outcome, llm_called>>

\* stage 3: metrics = calculate_metrics(all_errors, len(df)) and
\* executive_summary = generate_executive_summary(metrics)
Reporting ==
    /\ pc = "stage3"
    /\ total_records' = Len(df)
    /\ metrics' = calculate_metrics(all_errors, Len(df))
    /\ executive_summary' = generate_executive_summary(metrics')
    /\ pc' = "stage4"
    /\ UNCHANGED <<table, record_count, duplicates>>
    /\ UNCHANGED <<df, min_price, max_price, sku_pattern, min_inventory,
                   low_stock_threshold, price_errors, sku_errors, inv_errors,
                   all_errors, exc, env_key, api_key, ai_outcome, llm_called>>

\* stage 4: the CSV that stage 1 read is loaded into the database, and the
\* database is queried; the results are read by no later step but the prompt
\* of the AI summary
DatabaseAnalysis ==
    /\ pc = "stage4"
    /\ pc' = "ai_step"
    /\ LET r == load_csv(table, df)
       IN /\ table' = r.table
          /\ record_count' = r.returned
          /\ duplicates' \in detect_duplicate_skus(r.table)
    /\ UNCHANGED <<df, min_price, max_price, sku_pattern, min_inventory,
                   low_stock_threshold, price_errors, sku_errors, inv_errors,
                   all_errors, total_records, metrics, exc, executive_summary,
                   env_key, api_key, ai_outcome, llm_called>>

\* stage 4: a database call raises: sys.exit(1)
DatabaseFails ==
    /\ pc = "stage4"
    /\ pc' = "exit_1"
    /\ exc' = "sqlite3.Error"
    /\ UNCHANGED <<table, record_count, duplicates>>
    /\ UNCHANGED <<df, min_price, max_price, sku_pattern, min_inventory,
                   low_stock_threshold, price_errors, sku_errors, inv_errors,
                   all_errors, total_records, metrics, executive_summary,
                   env_key, api_key, ai_outcome, llm_called>>

\* mutant: an exception of the AI summary reaches the except clause of
\* stage 4
ai_failure_exits == "exit_1"

\* where main() goes on after "WARNING: failed to generate AI summary": the
\* inner except clause swallows the exception, and the run is completed
after_ai_failure == "done"

\* the AI summary inside its own try / except, then the closing summary:
\* "PIPELINE EXECUTION COMPLETED SUCCESSFULLY"
AiSummaryStep ==
    /\ pc = "ai_step"
    /\ \E response \in LlmResponses :
          LET r == generate_ai_summary(api_key, env_key, response)
          IN /\ ai_outcome' = r.outcome
             /\ llm_called' = r.called
             /\ pc' = IF r.outcome = "returned" THEN "done" ELSE after_ai_failure
    /\ UNCHANGED <<table, record_count, duplicates>>
    /\ UNCHANGED <<df, min_price, max_price, sku_pattern, min_inventory,
                   low_stock_threshold, price_errors, sku_errors, inv_errors,
                   all_errors, total_records, metrics, exc, executive_summary,
                   env_key, api_key>>

Next ==
    \/ Ingest
    \/ IngestFails
    \/ RunPriceValidator
    \/ RunSKUValidator
    \/ RunInventoryValidator
    \/ Reporting
    \/ DatabaseAnalysis
    \/ DatabaseFails
    \/ AiSummaryStep

Spec == Init /\ [][Next]_vars

(***************************************************************************)
(* Claims about PriceValidator.validate (SpecPrice)                        *)
(***************************************************************************)
PriceParsedBelow(cell, lo) ==
    \/ cell.kind = "ninf"
    \/ cell.kind = "num" /\ cell.v <= lo
    \/ cell.kind = "frac" /\ cell.v <= 2 * lo
PriceParsedAbove(cell, hi) ==
    \/ cell.kind = "inf"
    \/ cell.kind = "num" /\ cell.v >= hi
    \/ cell.kind = "frac" /\ cell.v >= 2 * hi
\* the outcome the claim gives a row
PriceOutcome(row) ==
    IF row.price.kind \in {"text", "none"} THEN "invalid_price_format"
    ELSE IF PriceParsedBelow(row.price, min_price) THEN "price_too_low"
    ELSE IF PriceParsedAbove(row.price, max_price) THEN "price_too_high"
    ELSE "ok"
RowIndices(frame) == [i \in 1..Len(frame) |-> i]
PriceErrRows == SelectSeq(RowIndices(df), LAMBDA i : PriceOutcome(df[i]) # "ok")

DupErrors == SelectSeq(sku_errors, LAMBDA e : e.issue_type = "duplicate_sku")
FirstOccurrence(i) == \A j \in 1..(i - 1) : df[j].sku # df[i].sku
Repeated(i) == \E j \in 1..Len(df) : j # i /\ df[j].sku = df[i].sku
DupRows == SelectSeq(RowIndices(df), LAMBDA i : FirstOccurrence(i) /\ Repeated(i))
DuplicatedSkus == {df[i].sku : i \in {j \in 1..Len(df) : Repeated(j)}}

\* C3: SKUValidator.validate reports duplicate_sku once for each distinct sku
\* that occurs in more than one row and never for a sku that occurs once; the
\* reports come in the order of the skus' first occurrences, each placed
\* between the errors of the rows up to that first occurrence and the errors
\* of the rows after it; their number is the number of duplicated sku values.
C3_OneDuplicatePerSku ==
    pc = "sku_returned" =>
        /\ Len(DupErrors) = Len(DupRows)
        /\ Len(DupErrors) = Cardinality(DuplicatedSkus)
        /\ \A k \in 1..Len(DupRows) : DupErrors[k].sku = df[DupRows[k]].sku
        /\ \A p \in 1..Len(sku_errors) :
              sku_errors[p].issue_type = "duplicate_sku" =>
                  \E f \in 1..Len(df) :
                      /\ FirstOccurrence(f)
                      /\ df[f].sku = sku_errors[p].sku
                      /\ \A q \in 1..(p - 1) :
                            \E j \in 1..f : df[j].sku = sku_errors[q].sku
                      /\ \A q \in (p + 1)..Len(sku_errors) :
                            \E j \in (f + 1)..Len(df) : df[j].sku = sku_errors[q].sku

\* two skus, each in two rows: two reports for four duplicate rows
C3_Witness ==
    /\ pc = "sku_returned"
    /\ sku_pattern = SKU_PATTERN
    /\ Len(df) = 4
    /\ df[1].sku = Sku1 /\ df[2].sku = Sku2 /\ df[3].sku = Sku1 /\ df[4].sku = Sku2
    /\ sku_errors = <<Err(Sku1, "duplicate_sku"), Err(Sku2, "duplicate_sku")>>

\* the pattern without its anchors "^" and "$"
PatternCore(pattern) == SelectSeq(pattern, LAMBDA t : t \notin {"^", "$"})
\* the string matches the pattern from its first to its last character
FullyMatches(pattern, s) ==
    LET core == PatternCore(pattern)
    IN /\ Len(core) = Len(s)
       /\ \A i \in 1..Len(s) :
             IF core[i] = "\\d" THEN s[i] \in Digits ELSE s[i] = core[i]
FormatErrors == SelectSeq(sku_errors, LAMBDA e : e.issue_type = "invalid_sku_format")
MalformedRows ==
    SelectSeq(RowIndices(df), LAMBDA i : ~FullyMatches(sku_pattern, df[i].sku))

\* C4: SKUValidator.validate reports invalid_sku_format for a row if and only
\* if its sku does not match the configured pattern from its first to its last
\* character, for every such row, repeated or not.
C4_FormatIffNotFullMatch ==
    pc = "sku_returned" =>
        /\ Len(FormatErrors) = Len(MalformedRows)
        /\ \A k \in 1..Len(MalformedRows) :
              FormatErrors[k].sku = df[MalformedRows[k]].sku

(***************************************************************************)
(* Claims about InventoryValidator.validate (SpecInv)                      *)
(***************************************************************************)
InvUnparseable(cell) == cell.kind \in {"text", "none", "nan", "inf", "ninf"}
InvParsed(cell) ==
    IF cell.kind = "frac"
    THEN (IF cell.v >= 0 THEN cell.v \div 2 ELSE -((-cell.v) \div 2))
    ELSE cell.v
\* the outcome the claim gives a row
InvOutcome(row) ==
    IF InvUnparseable(row.inventory_count) THEN "invalid_inventory_format"
    ELSE IF InvParsed(row.inventory_count) < min_inventory THEN "negative_inventory"
    ELSE IF InvParsed(row.inventory_count) < low_stock_threshold
        THEN "low_stock_warning"
    ELSE "ok"
InvErrRows == SelectSeq(RowIndices(df), LAMBDA i : InvOutcome(df[i]) # "ok")
InvCallEnded == pc \in {"inv_returned", "inv_raised"}

\* C2: a call of InventoryValidator.validate returns a list that holds, in
\* record order, one error for every row whose inventory_count cannot be
\* parsed as an integer (invalid_inventory_format), else is < min_inventory
\* (negative_inventory), else < low_stock_threshold (low_stock_warning), and
\* nothing for the other rows.
C2_InventoryOutcomes ==
    InvCallEnded =>
        /\ pc = "inv_returned"
        /\ Len(inv_errors) = Len(InvErrRows)
        /\ \A k \in 1..Len(InvErrRows) :
              inv_errors[k] = Err(df[InvErrRows[k]].sku, InvOutcome(df[InvErrRows[k]]))

\* C5: no call of a validator is left by an exception: it returns a list, in
\* which every row with a malformed value has its format error.
C5_NoValidatorRaises ==
    /\ exc = "none"
    /\ InvCallEnded =>
          /\ pc = "inv_returned"
          /\ \A i \in 1..Len(df) :
                InvUnparseable(df[i].inventory_count) =>
                    \E k \in 1..Len(inv_errors) :
                        inv_errors[k] = Err(df[i].sku, "invalid_inventory_format")

(***************************************************************************)
(* Claims about calculate_metrics (SpecMetrics)                            *)
(***************************************************************************)
DistinctErrorSkus == {all_errors[i].sku : i \in 1..Len(all_errors)}
Abs(n) == IF n < 0 THEN -n ELSE n

\* C8: calculate_metrics returns invalid_records = the number of distinct
\* skus of the error list, valid_records = total_records - invalid_records
\* and total_errors = the length of the error list.
C8_RecordCounts ==
    pc = "metrics_returned" =>
        /\ metrics.invalid_records = Cardinality(DistinctErrorSkus)
        /\ metrics.valid_records = total_records - Cardinality(DistinctErrorSkus)
        /\ metrics.total_errors = Len(all_errors)
        /\ metrics.total_records = total_records

\* one sku with several errors, counted once
C8_Witness ==
    /\ pc = "metrics_returned"
    /\ Len(all_errors) = 3
    /\ DistinctErrorSkus = {Sku1}
    /\ total_records = 2
    /\ metrics.invalid_records = 1
    /\ metrics.valid_records = 1
    /\ metrics.total_errors = 3

\* C9: data_integrity_score is valid_records / total_records * 100 rounded to
\* two decimals (the nearest hundredth, a tie to the even one) when
\* total_records > 0, and 0 when total_records = 0; the call always returns.
C9_ScoreValue ==
    pc = "metrics_returned" =>
        /\ exc = "none"
        /\ total_records = 0 => metrics.data_integrity_score = 0
        /\ total_records > 0 =>
              LET score == metrics.data_integrity_score
                  off == Abs(score * total_records - metrics.valid_records * 10000)
              IN /\ 2 * off <= total_records
                 /\ 2 * off = total_records => score % 2 = 0

\* two valid records of three: 66.67
C9_Witness ==
    /\ pc = "metrics_returned"
    /\ total_records = 3
    /\ metrics.valid_records = 2
    /\ metrics.data_integrity_score = 6667

PriceTypes == {"invalid_price_format", "price_too_low", "price_too_high"}
SkuTypes == {"invalid_sku_format", "duplicate_sku"}
InventoryTypes == {"invalid_inventory_format", "negative_inventory", "low_stock_warning"}
TypesOf(errors) == {errors[i].issue_type : i \in 1..Len(errors)}

\* C6: every error of the merged list has one of the eight issue types, and
\* each validator's list holds only that validator's types.
C6_ClosedIssueTypes ==
    /\ TypesOf(all_errors) \subseteq PriceTypes \cup SkuTypes \cup InventoryTypes
    /\ TypesOf(price_errors) \subseteq PriceTypes
    /\ TypesOf(sku_errors) \subseteq SkuTypes
    /\ TypesOf(inv_errors) \subseteq InventoryTypes

\* the three validators have run and each has reported something
C6_Witness ==
    /\ pc = "stage3"
    /\ TypesOf(price_errors) = {"invalid_price_format", "price_too_high"}
    /\ TypesOf(sku_errors) = {"invalid_sku_format", "duplicate_sku"}
    /\ TypesOf(inv_errors) = {"negative_inventory", "low_stock_warning"}
    /\ TypesOf(all_errors) =
           TypesOf(price_errors) \cup TypesOf(sku_errors) \cup TypesOf(inv_errors)

Block(t) == IF t \in PriceTypes THEN 1 ELSE IF t \in SkuTypes THEN 2 ELSE 3

\* C7: the merged list is the price errors, then the SKU errors, then the
\* inventory errors: no price error follows a SKU or inventory error and no
\* SKU error follows an inventory error.
C7_MergedOrder ==
    /\ all_errors = price_errors \o sku_errors \o inv_errors
    /\ \A i, j \in 1..Len(all_errors) :
          i < j => Block(all_errors[i].issue_type) <= Block(all_errors[j].issue_type)

\* the merged list is complete and holds errors of the three validators
C7_Witness ==
    /\ pc = "stage3"
    /\ price_errors # <<>>
    /\ sku_errors # <<>>
    /\ inv_errors # <<>>
    /\ Len(all_errors) = Len(price_errors) + Len(sku_errors) + Len(inv_errors)

Occurrences(t) == Cardinality({i \in 1..Len(all_errors) : all_errors[i].issue_type = t})
\* the position at which the issue type is first seen in the error list
FirstSeen(t) ==
    CHOOSE i \in 1..Len(all_errors) :
        /\ all_errors[i].issue_type = t
        /\ \A j \in 1..(i - 1) : all_errors[j].issue_type # t
Top5 == metrics.top_5_issues
InTop5(t) == \E k \in 1..Len(Top5) : Top5[k][1] = t

\* C12: top_5_issues has at most 5 entries, each an issue type of the error
\* list with its exact number of occurrences, no type twice, in order of
\* non-increasing count and, for equal counts, in order of first appearance
\* in the error list; a type left out has no larger count than a type in it.
C12_Top5Issues ==
    pc = "metrics_returned" =>
        /\ Len(Top5) <= 5
        /\ \A k \in 1..Len(Top5) :
              /\ Top5[k][1] \in TypesOf(all_errors)
              /\ Top5[k][2] = Occurrences(Top5[k][1])
        /\ \A k, l \in 1..Len(Top5) :
              k < l =>
                  /\ Top5[k][1] # Top5[l][1]
                  /\ Top5[k][2] >= Top5[l][2]
                  /\ Top5[k][2] = Top5[l][2] =>
                        FirstSeen(Top5[k][1]) < FirstSeen(Top5[l][1])
        /\ \A t \in TypesOf(all_errors) :
              ~InTop5(t) => \A k \in 1..Len(Top5) : Occurrences(t) <= Top5[k][2]

\* six issue types, the last seen one twice: it is ranked first and the
\* sixth type in order of appearance is left out
C12_Witness ==
    /\ pc = "metrics_returned"
    /\ Len(all_errors) = 7
    /\ Cardinality(TypesOf(all_errors)) = 6
    /\ all_errors[6].issue_type = all_errors[7].issue_type
    /\ Len(Top5) = 5
    /\ Top5[1] = <<all_errors[7].issue_type, 2>>
    /\ \A k \in 2..5 : Top5[k] = <<all_errors[k - 1].issue_type, 1>>
    /\ ~InTop5(all_errors[5].issue_type)
    /\ Occurrences(all_errors[5].issue_type) = 1

(***************************************************************************)
(* Claims about the size of the validators' lists                          *)
(***************************************************************************)
ErrorsOfType(errors, s, t) ==
    Cardinality({k \in 1..Len(errors) : errors[k] = Err(s, t)})

\* C13: a validator returns at most two errors per row: PriceValidator and
\* InventoryValidator at most one, SKUValidator at most two, and a row gets
\* both invalid_sku_format and duplicate_sku exactly when its sku is
\* malformed (does not match the pattern from its first to its last
\* character) and the row is the first occurrence of a repeated sku.
C13_AtMostTwoPerRow ==
    /\ Len(price_errors) <= Len(df)
    /\ Len(inv_errors) <= Len(df)
    /\ Len(sku_errors) <= 2 * Len(df)
    /\ pc = "sku_returned" =>
          \A i \in 1..Len(df) :
              (FirstOccurrence(i) /\ Repeated(i)
                   /\ ~FullyMatches(sku_pattern, df[i].sku))
              <=> (/\ FirstOccurrence(i)
                   /\ ErrorsOfType(sku_errors, df[i].sku, "duplicate_sku") = 1
                   /\ ErrorsOfType(sku_errors, df[i].sku, "invalid_sku_format") >= 1)

\* the bounds on the lengths alone
C13_LengthBounds ==
    /\ Len(price_errors) <= Len(df)
    /\ Len(inv_errors) <= Len(df)
    /\ Len(sku_errors) <= 2 * Len(df)

Score == metrics.data_integrity_score
Band == <<executive_summary.health_status, executive_summary.health_verb>>

\* C15: the health band depends on the score alone: >= 90 excellent /
\* demonstrates, >= 75 and < 90 good / shows, >= 50 and < 75 fair /
\* indicates, < 50 poor / reveals; exactly one band applies and the scores
\* 90, 75 and 50 are in the higher band.
C15_HealthBand ==
    pc = "summary_returned" =>
        /\ Band = <<"excellent", "demonstrates">> <=> Score >= 9000
        /\ Band = <<"good", "shows">> <=> (7500 <= Score /\ Score < 9000)
        /\ Band = <<"fair", "indicates">> <=> (5000 <= Score /\ Score < 7500)
        /\ Band = <<"poor", "reveals">> <=> Score < 5000
        /\ Band \in {<<"excellent", "demonstrates">>, <<"good", "shows">>,
                     <<"fair", "indicates">>, <<"poor", "reveals">>}

\* a score of exactly 90.00 (one invalid record of ten) is excellent
C15_Witness ==
    /\ pc = "summary_returned"
    /\ total_records = 10
    /\ metrics.invalid_records = 1
    /\ Score = 9000
    /\ Band = <<"excellent", "demonstrates">>

Template == executive_summary.template
\* invalid_pct = invalid_records / total_records * 100, as the pair of its
\* numerator and denominator; 0 when total_records = 0
InvalidPctNum == IF total_records > 0 THEN metrics.invalid_records * 100 ELSE 0
InvalidPctDen == IF total_records > 0 THEN total_records ELSE 1

\* C16: exactly one paragraph is chosen: "no data integrity issues" when
\* invalid_records = 0; else "minimal remediation" when invalid_pct < 5; else
\* "moderate data quality concerns" when 5 <= invalid_pct < 15; else
\* "significant data integrity issues".
C16_TemplateChoice ==
    pc = "summary_returned" =>
        /\ Template = "no_issues" <=> metrics.invalid_records = 0
        /\ Template = "minimal" <=>
              (metrics.invalid_records # 0 /\ InvalidPctNum < 5 * InvalidPctDen)
        /\ Template = "moderate" <=>
              (/\ metrics.invalid_records # 0
               /\ 5 * InvalidPctDen <= InvalidPctNum
               /\ InvalidPctNum < 15 * InvalidPctDen)
        /\ Template = "significant" <=>
              (metrics.invalid_records # 0 /\ InvalidPctNum >= 15 * InvalidPctDen)
        /\ Template \in {"no_issues", "minimal", "moderate", "significant"}

\* invalid_pct of exactly 5 (two invalid records of forty) is moderate
C16_Witness ==
    /\ pc = "summary_returned"
    /\ total_records = 40
    /\ metrics.invalid_records = 2
    /\ Template = "moderate"

\* C19: when the paragraph "no data integrity issues ... perfect ...
\* integrity score" is chosen, the score of the metrics is 100.
C19_PerfectMeansHundred ==
    (pc = "summary_returned" /\ Template = "no_issues") => Score = 10000

(***************************************************************************)
(* Claims about the prices PriceValidator.validate accepts (SpecPrice)     *)
(***************************************************************************)
\* the price parses to a number strictly between min_price and max_price
PriceStrictlyInside(cell) ==
    \/ cell.kind = "num" /\ min_price < cell.v /\ cell.v < max_price
    \/ cell.kind = "frac" /\ 2 * min_price < cell.v /\ cell.v < 2 * max_price
PriceOutsideSkus ==
    {df[i].sku : i \in {j \in 1..Len(df) : ~PriceStrictlyInside(df[j].price)}}

\* C20: a row is left without a price error only if its price parses to a
\* number strictly between min_price and max_price; every other price, a
\* missing one that parses to not-a-number included, gets exactly one error.
C20_OnlyInsidePricesPass ==
    pc = "price_returned" =>
        /\ Len(price_errors) =
               Cardinality({i \in 1..Len(df) : ~PriceStrictlyInside(df[i].price)})
        /\ \A s \in PriceOutsideSkus : \E k \in 1..Len(price_errors) :
               price_errors[k].sku = s

(***************************************************************************)
(* Claims about the AI summary (Spec, SpecAi)                              *)
(***************************************************************************)
\* C17: whatever generate_ai_summary does at the AI step, the step leads to
\* the successful completion of the pipeline and leaves the error list and
\* the metrics as they were.
C17_AiFailureHarmless ==
    [][pc = "ai_step" =>
          /\ pc' = "done"
          /\ all_errors' = all_errors
          /\ metrics' = metrics
          /\ exc' = exc]_vars

\* the call raised for want of a key, and the run is completed with the
\* metrics of its error list
C17_Witness ==
    /\ pc = "done"
    /\ ai_outcome = "RuntimeError"
    /\ ~llm_called
    /\ all_errors # <<>>
    /\ metrics = calculate_metrics(all_errors, Len(df))

\* C18: a call of generate_ai_summary made while OPENAI_API_KEY is not in
\* the environment raises RuntimeError and does not call the LLM.
C18_NoKeyRaises ==
    (pc \in {"ai_returned", "ai_raised"} /\ ~env_key) =>
        (ai_outcome = "RuntimeError" /\ ~llm_called)

(***************************************************************************)
(* Claims about the database (SpecDb)                                      *)
(***************************************************************************)
\* the rows of the table without their id
TableRows ==
    [i \in 1..Len(table) |->
        [sku |-> table[i].sku, price |-> table[i].price,
         inventory_count |-> table[i].inventory_count]]

\* the skus that occur more than once in the CSV, with their counts
CsvDuplicates ==
    LET count(s) == Cardinality({i \in 1..Len(df) : df[i].sku = s})
    IN {[sku |-> df[i].sku, occurrence_count |-> count(df[i].sku)] :
           i \in {k \in 1..Len(df) : count(df[k].sku) > 1}}

\* C21: after any number of load_csv calls with the same CSV on the same
\* database file, the products table holds exactly the rows of the CSV: its
\* row count is the value load_csv returned, and detect_duplicate_skus
\* returns the skus that occur more than once in the CSV with their counts
\* in the CSV.
C21_TableHoldsCsv ==
    pc = "db_queried" =>
        /\ TableRows = df
        /\ Len(table) = record_count
        /\ {duplicates[i] : i \in 1..Len(duplicates)} = CsvDuplicates

====
